---- MODULE Spec2Model ----
(***************************************************************************)
(* Model of the two XSD utilities of xsd_merge:                            *)
(*   xsd_parse.py  - the type-narrowing rewriter (process_xsd_file,        *)
(*                   process_directory)                                    *)
(*   xsd_merge.py  - the schema merger (XSDMerger, main)                   *)
(*                                                                         *)
(* Python strings are modelled as sequences of tokens, so that f-string    *)
(* formatting is concatenation and str.startswith / str.endswith are       *)
(* prefix / suffix tests: "xs:integer" is <<"xs", ":", "integer">>,        *)
(* "DetailType" is <<"DetailType">>, "" is <<>>.  An attribute that is     *)
(* absent (elem.get returns None) is modelled as <<>> as well: the code    *)
(* only ever tests such a value for truthiness and for list membership,    *)
(* where None and "" behave alike.                                         *)
(***************************************************************************)
EXTENDS Naturals, Sequences, FiniteSets, TLC

\* ------------------------------------------------------------------------
\* Bounds of the model
\* ------------------------------------------------------------------------

\* total number of element declarations in one schema document
MaxElems == 3

\* number of files the glob of the merger's input directory returns
MaxFiles == 2

\* total number of top-level children in the merger's input files
MaxChildren == 3

\* number of merge_schemas calls made on one XSDMerger
MaxMerges == 2

\* number of files os.walk yields under the rewriter's input directory
MaxWalk == 2

\* ------------------------------------------------------------------------
\* Strings
\* ------------------------------------------------------------------------

StartsWith(s, p) == Len(p) <= Len(s) /\ SubSeq(s, 1, Len(p)) = p

EndsWith(s, p) == Len(p) <= Len(s) /\ SubSeq(s, Len(s) - Len(p) + 1, Len(s)) = p

\* "truthiness" of a Python string (or of None, see above)
Truthy(s) == s # <<>>

\* f"{xs_prefix}:<local>"
Prefixed(pfx, local) == pfx \o <<":">> \o local

XSD_NS == "http://www.w3.org/2001/XMLSchema"

\* some other namespace a document may bind (its target namespace)
TNS == "urn:tns"

\* the name of a node that is in no namespace
NO_NS == ""

TARGET == <<"getCommencementsData">>

\* the four local names of lines 84-85 and 99-100
NarrowLocals == { <<"integer">>, <<"boolean">>, <<"dateTime">>, <<"date">> }

\* [f"{xs_prefix}:integer", f"{xs_prefix}:boolean", f"{xs_prefix}:dateTime", f"{xs_prefix}:date"]
NarrowList(pfx) == { Prefixed(pfx, l) : l \in NarrowLocals }

\* ------------------------------------------------------------------------
\* Optional strings: a dict key of root.nsmap, or xs_prefix, may be None
\* ------------------------------------------------------------------------

None == [isNone |-> TRUE, s |-> <<>>]

Some(str) == [isNone |-> FALSE, s |-> str]

\* ------------------------------------------------------------------------
\* xsd_parse.py, lines 12-33: the prefix bound to the XSD namespace
\* ------------------------------------------------------------------------

\* index of the first entry of ns_map satisfying Test, 0 if none
RECURSIVE FirstIndex(_, _, _)
FirstIndex(ns_map, i, uri) ==
  IF i > Len(ns_map) THEN 0
  ELSE IF ns_map[i].uri = uri THEN i
  ELSE FirstIndex(ns_map, i + 1, uri)

RECURSIVE FirstDefaultIndex(_, _, _)
FirstDefaultIndex(ns_map, i, uri) ==
  IF i > Len(ns_map) THEN 0
  ELSE IF ns_map[i].prefix.isNone /\ ns_map[i].uri = uri THEN i
  ELSE FirstDefaultIndex(ns_map, i + 1, uri)

\* lines 14-25: the first loop takes the key of the first binding of the XSD
\* namespace (which is None for the default namespace); the second loop turns
\* a default-namespace binding into the empty prefix
FindXsPrefix(ns_map) ==
  LET i == FirstIndex(ns_map, 1, XSD_NS)
      first == IF i = 0 THEN None ELSE ns_map[i].prefix
      j == FirstDefaultIndex(ns_map, 1, XSD_NS)
  IN  IF ~first.isNone THEN first
      ELSE IF j # 0 THEN Some(<<>>)
      ELSE None

\* line 33: xpath_prefix = f"{xs_prefix}:" if xs_prefix else ""
XPathPrefix(pfx) == IF Truthy(pfx) THEN pfx \o <<":">> ELSE <<>>

\* The namespace an XPath name test f"{xpath_prefix}complexType" selects:
\* a prefixed test selects the namespace the dict ns of line 32 binds the
\* prefix to, which is the XSD namespace; an unprefixed test selects, in
\* XPath 1.0, the nodes that are in no namespace.
XPathNamespace(xpath_prefix) == IF xpath_prefix = <<>> THEN NO_NS ELSE XSD_NS

\* lines 44-47, 71-74, 90-93: f".//{xs_prefix}:element" if xs_prefix, else
\* ".//element"
ElementTestNamespace(pfx) == IF Truthy(pfx) THEN XSD_NS ELSE NO_NS

\* ------------------------------------------------------------------------
\* Schema documents
\*
\* A document is its root's namespace map (a sequence of bindings, in dict
\* order), the namespace its schema nodes are in, the way it writes a name
\* of the XSD namespace in a type attribute ("xs:" or nothing), and its named
\* complexType declarations in document order; a declaration is its name
\* attribute and the type attributes of the element declarations nested in
\* it, in document order.  Type names are unique within a document.
\* ------------------------------------------------------------------------

Binding(k, u) == [prefix |-> k, uri |-> u]

\* xmlns="urn:tns" xmlns:p="urn:tns" xmlns:xs="http://www.w3.org/2001/XMLSchema"
PrefixedNsMap ==
  << Binding(None, TNS), Binding(Some(<<"p">>), TNS), Binding(Some(<<"xs">>), XSD_NS) >>

\* xmlns="http://www.w3.org/2001/XMLSchema" xmlns:p="urn:tns"
DefaultNsMap == << Binding(None, XSD_NS), Binding(Some(<<"p">>), TNS) >>

\* xmlns:p="urn:tns": no binding of the XSD namespace on the root
ForeignNsMap == << Binding(Some(<<"p">>), TNS) >>

\* the values a type attribute takes in a document that writes XSD names
\* with w: the four narrowed primitives, string, references to the local
\* types A and B (unprefixed, and prefixed with the target namespace's
\* prefix), and no type attribute at all
TypeAttrs(w) ==
  { w \o l : l \in NarrowLocals \cup { <<"string">> } }
    \cup { <<"A">>, <<"B">>, <<"p", ":", "A">>, <<>> }

\* The shapes of document: the namespace map, the namespace the nodes are
\* in, how the document writes a name of the XSD namespace in a type
\* attribute, and the type attributes it uses.  A file that binds no XSD
\* namespace is left before any type attribute is read (lines 27-29), so
\* two values stand for all of them there.
Headers ==
  { [ns_map |-> PrefixedNsMap, ns |-> XSD_NS, written |-> <<"xs", ":">>,
     types |-> TypeAttrs(<<"xs", ":">>)],
    [ns_map |-> DefaultNsMap,  ns |-> XSD_NS, written |-> <<>>,
     types |-> TypeAttrs(<<>>)],
    [ns_map |-> ForeignNsMap,  ns |-> TNS,    written |-> <<"xs", ":">>,
     types |-> { <<"xs", ":", "integer">>, <<"A">> }] }

\* the names a document may declare, in the order it declares them
DeclNames == << TARGET, <<"A">>, <<"B">> >>

RECURSIVE SumTo(_, _)
SumTo(lens, i) == IF i = 0 THEN 0 ELSE lens[i] + SumTo(lens, i - 1)

\* The document with header h that declares the names DeclNames[i] for i in
\* present, the i-th of them with lens[i] nested elements, whose type
\* attributes are, in document order, the entries of flat.
MakeDocument(h, present, lens, flat) ==
  LET Decl(i) == [name  |-> DeclNames[i],
                  elems |-> [e \in 1..lens[i] |-> flat[SumTo(lens, i - 1) + e]]]
      Keep(i) == i \in present
      idx == SelectSeq([i \in 1..Len(DeclNames) |-> i], Keep)
  IN  [ns_map |-> h.ns_map, ns |-> h.ns, written |-> h.written,
       decls |-> [k \in 1..Len(idx) |-> Decl(idx[k])]]

\* input is one of the documents with at most MaxElems element declarations
IsDocument(doc) ==
  \E h \in Headers :
    \E present \in SUBSET (1..Len(DeclNames)) :
      \E lens \in [1..Len(DeclNames) -> 0..MaxElems] :
        /\ \A i \in 1..Len(DeclNames) : i \notin present => lens[i] = 0
        /\ SumTo(lens, Len(DeclNames)) <= MaxElems
        /\ \E flat \in [1..SumTo(lens, Len(DeclNames)) -> h.types] :
             doc = MakeDocument(h, present, lens, flat)

\* ------------------------------------------------------------------------
\* xsd_parse.py, process_xsd_file: XPath lookups
\* ------------------------------------------------------------------------

\* root.xpath(f".//{xpath_prefix}complexType[@name='{name}']", namespaces=ns):
\* the indices of the matching declarations, in document order
RECURSIVE MatchFrom(_, _, _, _)
MatchFrom(doc, i, xpath_prefix, name) ==
  IF i > Len(doc.decls) THEN <<>>
  ELSE (IF doc.ns = XPathNamespace(xpath_prefix) /\ doc.decls[i].name = name
          THEN <<i>> ELSE <<>>)
       \o MatchFrom(doc, i + 1, xpath_prefix, name)

FindComplexType(doc, xpath_prefix, name) == MatchFrom(doc, 1, xpath_prefix, name)

\* gc.xpath(f".//{xs_prefix}:element") or gc.xpath(".//element"): the
\* positions of the element declarations nested in declaration d
FindElements(doc, d, pfx) ==
  IF doc.ns = ElementTestNamespace(pfx) THEN 1..Len(doc.decls[d].elems) ELSE {}

\* lines 52 and 79: type_attr and not type_attr.startswith(f"{xs_prefix}:")
IsTypeReference(type_attr, pfx) ==
  Truthy(type_attr) /\ ~StartsWith(type_attr, pfx \o <<":">>)

\* lines 40-53: nested_types
NestedTypes(doc, gcs, pfx) ==
  UNION { { doc.decls[gcs[g]].elems[e] :
              e \in { e0 \in FindElements(doc, gcs[g], pfx) :
                        IsTypeReference(doc.decls[gcs[g]].elems[e0], pfx) } } :
          g \in 1..Len(gcs) }

\* line 56: list(nested_types), in whatever order the set iterates
Orderings(S) ==
  { q \in [1..Cardinality(S) -> S] : \A i, j \in 1..Cardinality(S) : q[i] = q[j] => i = j }

\* lines 83-86 and 98-102: the narrowing of one type attribute
Narrow(type_attr, pfx) ==
  IF type_attr \in NarrowList(pfx) THEN Prefixed(pfx, <<"string">>) ELSE type_attr

\* a loop that takes every popped name for a new one
AlreadyProcessed_Never(current_type, processed) == FALSE

\* lines 62-63: if current_type in processed_types: continue
AlreadyProcessed(current_type, processed) == current_type \in processed

\* a loop that marks a name only once its declaration is found
MarkProcessed_FoundOnly(processed, current_type, found) ==
  IF found # <<>> THEN processed \cup { current_type } ELSE processed

\* line 65: processed_types.add(current_type), whatever the lookup of line 68
\* (found) returns afterwards
MarkProcessed(processed, current_type, found) == processed \cup { current_type }

\* a loop that gives up at the first name it cannot find
RestOfQueue_StopOnDangling(queue, found) == IF found = <<>> THEN <<>> ELSE Tail(queue)

\* line 61: pop(0) leaves the rest of the queue, whatever the lookup of
\* line 68 (found) returns afterwards
RestOfQueue(queue, found) == Tail(queue)

\* lines 77-86 on the declaration d that the lookup of line 68 found first:
\* the names appended to the work queue, in document order
Enqueued(doc, d, pfx, processed) ==
  LET es == doc.decls[d].elems
      Test(t) == IsTypeReference(t, pfx) /\ t \notin processed
  IN  IF FindElements(doc, d, pfx) = {} THEN <<>> ELSE SelectSeq(es, Test)

\* lines 77-86 and 95-102: the declaration d with its nested elements narrowed
NarrowDecl(doc, d, pfx) ==
  [doc EXCEPT !.decls[d].elems =
     [e \in 1..Len(@) |-> IF e \in FindElements(doc, d, pfx) THEN Narrow(@[e], pfx) ELSE @[e]]]

\* lines 89-102: the final pass over every located target declaration
RECURSIVE FinalPass(_, _, _, _)
FinalPass(doc, gcs, g, pfx) ==
  IF g > Len(gcs) THEN doc
  ELSE FinalPass(NarrowDecl(doc, gcs[g], pfx), gcs, g + 1, pfx)

\* ------------------------------------------------------------------------
\* xsd_merge.py: schema files and XSDMerger._process_schema
\*
\* A file either fails to parse or is a schema root: its attributes and its
\* top-level children in document order.  A child is its tag (lxml's
\* "{namespace}local", or "local" for a node in no namespace), its name
\* attribute ("" when it has none) and its content.
\* ------------------------------------------------------------------------

Tag(ns, local) == IF ns = NO_NS THEN << local >> ELSE << "{", ns, "}", local >>

Child(tag, name, body) == [tag |-> tag, name |-> name, body |-> body]

\* the top-level children the input files are made of
Children ==
  { Child(Tag(XSD_NS, "element"),     <<"A">>, 1),
    Child(Tag(XSD_NS, "element"),     <<"A">>, 2),
    Child(Tag(XSD_NS, "element"),     <<>>,    1),
    Child(Tag(XSD_NS, "complexType"), <<"A">>, 1),
    Child(Tag(XSD_NS, "simpleType"),  <<"A">>, 2),
    Child(Tag(XSD_NS, "include"),     <<>>,    1),
    Child(Tag(XSD_NS, "annotation"),  <<>>,    1) }

\* The list of files with parses[i] telling whether file i parses and
\* lens[i] its number of children, the children being the entries of flat.
MakeFiles(parses, lens, flat) ==
  [i \in 1..Len(parses) |->
     [parses   |-> parses[i],
      attrib   |-> TNS,
      children |-> [c \in 1..lens[i] |-> flat[SumTo(lens, i - 1) + c]]]]

IsFileList(files) ==
  \E n \in 0..MaxFiles :
    \E parses \in [1..n -> BOOLEAN] :
      \E lens \in [1..n -> 0..MaxChildren] :
        /\ \A i \in 1..n : ~parses[i] => lens[i] = 0
        /\ SumTo(lens, n) <= MaxChildren
        /\ \E flat \in [1..SumTo(lens, n) -> Children] :
             files = MakeFiles(parses, lens, flat)

\* lines 38-39: elem.get('name', '')
get_type_name(child) == child.name

\* a merger that forgets the names it has copied
RecordName_Forgets(names, name) == names

\* lines 62 and 68: self.merged_elements.add(...), self.merged_types.add(...)
RecordName(names, name) == names \cup { name }

\* lines 59-72 for one child, on the merger state m = the merged names and
\* the children of the merged root
ProcessChild(m, child) ==
  IF EndsWith(child.tag, << "}", "element" >>)
    THEN IF Truthy(get_type_name(child)) /\ get_type_name(child) \notin m.merged_elements
           THEN [m EXCEPT !.merged_elements = RecordName(@, get_type_name(child)),
                          !.children = Append(@, child)]
           ELSE m
  ELSE IF EndsWith(child.tag, << "}", "complexType" >>)
            \/ EndsWith(child.tag, << "}", "simpleType" >>)
    THEN IF Truthy(get_type_name(child)) /\ get_type_name(child) \notin m.merged_types
           THEN [m EXCEPT !.merged_types = RecordName(@, get_type_name(child)),
                          !.children = Append(@, child)]
           ELSE m
  ELSE IF EndsWith(child.tag, << "}", "import" >>)
            \/ EndsWith(child.tag, << "}", "include" >>)
    THEN [m EXCEPT !.children = Append(@, child)]
  ELSE m

\* lines 57-72: the loop over the children of one schema
RECURSIVE ProcessFrom(_, _, _)
ProcessFrom(m, children, c) ==
  IF c > Len(children) THEN m
  ELSE ProcessFrom(ProcessChild(m, children[c]), children, c + 1)

ProcessSchema(m, schema) == ProcessFrom(m, schema.children, 1)

\* ------------------------------------------------------------------------
\* State
\* ------------------------------------------------------------------------

VARIABLES
  \* process_xsd_file (one call)
  input,                      \* the document at input_path
  root,                       \* the parsed tree, rewritten in place
  xs_prefix,                  \* line 14
  gc_elements,                \* line 36
  complex_types_to_process,   \* line 56
  processed_types,            \* line 57
  output,                     \* the file at output_path: <<>> or <<document>>
  pc,                         \* where the call is
  expansions,                 \* how often line 65 ran for each name (a bag)
  iterations,                 \* how often the loop body of line 60 ran
  \* xsd_merge.py (one process)
  input_dir_exists,           \* os.path.isdir(input_dir)
  xsd_files,                  \* the files the glob returns, in its order
  file_paths,                 \* the argument of the running merge_schemas call
  next_file,                  \* the position in file_paths of the next load_xsd
  merged_types,               \* XSDMerger.merged_types
  merged_elements,            \* XSDMerger.merged_elements
  merged_root,                \* XSDMerger.merged_root: <<>> (None) or <<root>>
  merged_file,                \* merged_schema.xsd: <<>> or <<root>>
  exit_status,                \* 0 while running, the argument of sys.exit after it
  merge_calls,                \* merge_schemas calls made on the merger
  mpc,                        \* where the process is
  \* xsd_parse.py, process_directory (one run)
  walk_dir_exists,            \* os.path.exists(input_dir)
  walk,                       \* the files os.walk yields, in its order
  walk_pos,                   \* the position in walk of the next file
  calls,                      \* process_xsd_file calls made, per position in walk
  outputs,                    \* the files under output_dir: relative path -> document
  errors,                     \* the positions whose "Error processing" line was printed
  xsd_files_found,            \* line 122
  dpc                         \* where the run is

dvars == << walk_dir_exists, walk, walk_pos, calls, outputs, errors, xsd_files_found, dpc >>

mvars == << input_dir_exists, xsd_files, file_paths, next_file, merged_types,
            merged_elements, merged_root, merged_file, exit_status, merge_calls, mpc >>

rvars == << input, root, xs_prefix, gc_elements, complex_types_to_process,
            processed_types, output, pc, expansions, iterations >>

vars == << rvars, mvars, dvars >>

\* ------------------------------------------------------------------------
\* process_xsd_file, step by step
\* ------------------------------------------------------------------------

InitRewrite ==
  /\ IsDocument(input)
  /\ root = input
  /\ xs_prefix = None
  /\ gc_elements = <<>>
  /\ complex_types_to_process = <<>>
  /\ processed_types = {}
  /\ output = <<>>
  /\ pc = "parse"
  /\ expansions = [n \in {} |-> 0]
  /\ iterations = 0

\* lines 12-29: no binding of the XSD namespace: warn and return, nothing
\* is written
SkipFile ==
  /\ pc = "parse"
  /\ FindXsPrefix(root.ns_map).isNone
  /\ pc' = "skipped"
  /\ UNCHANGED << input, root, xs_prefix, gc_elements, complex_types_to_process,
                  processed_types, output, expansions, iterations >>
  /\ UNCHANGED << mvars, dvars >>

\* lines 12-38 when the lookup of line 36 finds nothing: straight to the write
NoTarget ==
  /\ pc = "parse"
  /\ ~FindXsPrefix(root.ns_map).isNone
  /\ LET p == FindXsPrefix(root.ns_map)
     IN  /\ FindComplexType(root, XPathPrefix(p.s), TARGET) = <<>>
         /\ xs_prefix' = p
  /\ pc' = "write"
  /\ UNCHANGED << input, root, gc_elements, complex_types_to_process,
                  processed_types, output, expansions, iterations >>
  /\ UNCHANGED << mvars, dvars >>

\* lines 12-57 when the target is found: the work queue is the collected
\* reference names in some order
CollectReferences ==
  /\ pc = "parse"
  /\ ~FindXsPrefix(root.ns_map).isNone
  /\ LET p == FindXsPrefix(root.ns_map)
         gcs == FindComplexType(root, XPathPrefix(p.s), TARGET)
     IN  /\ gcs # <<>>
         /\ xs_prefix' = p
         /\ gc_elements' = gcs
         /\ complex_types_to_process' \in Orderings(NestedTypes(root, gcs, p.s))
  /\ processed_types' = {}
  /\ pc' = "loop"
  /\ UNCHANGED << input, root, output, expansions, iterations >>
  /\ UNCHANGED << mvars, dvars >>

\* lines 60-63: the popped name was processed already
SkipProcessed ==
  /\ pc = "loop"
  /\ complex_types_to_process # <<>>
  /\ AlreadyProcessed(Head(complex_types_to_process), processed_types)
  /\ complex_types_to_process' = Tail(complex_types_to_process)
  /\ iterations' = iterations + 1
  /\ UNCHANGED << input, root, xs_prefix, gc_elements, processed_types, output, pc,
                  expansions >>
  /\ UNCHANGED << mvars, dvars >>

\* lines 60-86: one iteration of the loop on a name not processed yet
ExpandType ==
  /\ pc = "loop"
  /\ complex_types_to_process # <<>>
  /\ LET current_type == Head(complex_types_to_process)
         complex_type_elem == FindComplexType(root, XPathPrefix(xs_prefix.s), current_type)
         rest == RestOfQueue(complex_types_to_process, complex_type_elem)
     IN  /\ ~AlreadyProcessed(current_type, processed_types)
         /\ processed_types' = MarkProcessed(processed_types, current_type, complex_type_elem)
         /\ expansions' =
              [n \in DOMAIN expansions \cup { current_type } |->
                 IF n = current_type
                   THEN (IF n \in DOMAIN expansions THEN expansions[n] + 1 ELSE 1)
                   ELSE expansions[n]]
         /\ IF complex_type_elem # <<>>
              THEN /\ complex_types_to_process' =
                        rest \o Enqueued(root, complex_type_elem[1], xs_prefix.s, processed_types')
                   /\ root' = NarrowDecl(root, complex_type_elem[1], xs_prefix.s)
              ELSE /\ complex_types_to_process' = rest
                   /\ root' = root
  /\ iterations' = iterations + 1
  /\ UNCHANGED << input, xs_prefix, gc_elements, output, pc >>
  /\ UNCHANGED << mvars, dvars >>

\* lines 60 and 88-102: the queue is empty, the final pass over the target
DirectElements ==
  /\ pc = "loop"
  /\ complex_types_to_process = <<>>
  /\ root' = FinalPass(root, gc_elements, 1, xs_prefix.s)
  /\ pc' = "write"
  /\ UNCHANGED << input, xs_prefix, gc_elements, complex_types_to_process,
                  processed_types, output, expansions, iterations >>
  /\ UNCHANGED << mvars, dvars >>

\* lines 104-108: the tree is written to output_path
WriteOutput ==
  /\ pc = "write"
  /\ output' = << root >>
  /\ pc' = "done"
  /\ UNCHANGED << input, root, xs_prefix, gc_elements, complex_types_to_process,
                  processed_types, expansions, iterations >>
  /\ UNCHANGED << mvars, dvars >>

NextRewrite ==
  \/ SkipFile
  \/ NoTarget
  \/ CollectReferences
  \/ SkipProcessed
  \/ ExpandType
  \/ DirectElements
  \/ WriteOutput

\* ------------------------------------------------------------------------
\* xsd_merge.py: main, XSDMerger.merge_schemas, XSDMerger.save_merged_schema
\* ------------------------------------------------------------------------

\* the merger right after XSDMerger(), lines 10-17
InitMerger ==
  /\ merged_types = {}
  /\ merged_elements = {}
  /\ merged_root = <<>>
  /\ merge_calls = 0

InitMerge ==
  /\ input_dir_exists \in BOOLEAN
  /\ IsFileList(xsd_files)
  /\ ~input_dir_exists => xsd_files = <<>>
  /\ file_paths = <<>>
  /\ next_file = 1
  /\ InitMerger
  /\ merged_file = <<>>
  /\ exit_status = 0
  /\ mpc = "main"

\* the state of the merger as ProcessSchema takes it
MergerState ==
  [merged_types |-> merged_types, merged_elements |-> merged_elements,
   children |-> IF merged_root = <<>> THEN <<>> ELSE merged_root[1].children]

\* lines 97-99: the input directory is missing
InputDirMissing ==
  /\ mpc = "main"
  /\ ~input_dir_exists
  /\ exit_status' = 1
  /\ mpc' = "exit"
  /\ UNCHANGED << input_dir_exists, xsd_files, file_paths, next_file, merged_types,
                  merged_elements, merged_root, merged_file, merge_calls >>
  /\ UNCHANGED << rvars, dvars >>

\* lines 103-107: the glob finds nothing
NoFilesFound ==
  /\ mpc = "main"
  /\ input_dir_exists
  /\ xsd_files = <<>>
  /\ exit_status' = 1
  /\ mpc' = "exit"
  /\ UNCHANGED << input_dir_exists, xsd_files, file_paths, next_file, merged_types,
                  merged_elements, merged_root, merged_file, merge_calls >>
  /\ UNCHANGED << rvars, dvars >>

\* lines 111-112 and 41: main constructs the merger and calls merge_schemas
\* with the files the glob found
CallMergeSchemas ==
  /\ mpc = "main"
  /\ input_dir_exists
  /\ xsd_files # <<>>
  /\ file_paths' = xsd_files
  /\ next_file' = 1
  /\ merge_calls' = merge_calls + 1
  /\ mpc' = "merge"
  /\ UNCHANGED << input_dir_exists, xsd_files, merged_types, merged_elements,
                  merged_root, merged_file, exit_status >>
  /\ UNCHANGED << rvars, dvars >>

\* lines 42-44: merge_schemas on an empty list
EmptyFileList ==
  /\ mpc = "merge"
  /\ file_paths = <<>>
  /\ exit_status' = 1
  /\ mpc' = "exit"
  /\ UNCHANGED << input_dir_exists, xsd_files, file_paths, next_file, merged_types,
                  merged_elements, merged_root, merged_file, merge_calls >>
  /\ UNCHANGED << rvars, dvars >>

\* a load_xsd that prints the error and lets merge_schemas return what it
\* has merged so far
LoadError_ReturnsPartial ==
  /\ mpc = "merge"
  /\ next_file <= Len(file_paths)
  /\ ~file_paths[next_file].parses
  /\ mpc' = "merged"
  /\ UNCHANGED << input_dir_exists, xsd_files, file_paths, next_file, merged_types,
                  merged_elements, merged_root, merged_file, exit_status, merge_calls >>
  /\ UNCHANGED << rvars, dvars >>

\* lines 19-26, from line 46 or line 52: the next file fails to parse
LoadError ==
  /\ mpc = "merge"
  /\ next_file <= Len(file_paths)
  /\ ~file_paths[next_file].parses
  /\ exit_status' = 1
  /\ mpc' = "exit"
  /\ UNCHANGED << input_dir_exists, xsd_files, file_paths, next_file, merged_types,
                  merged_elements, merged_root, merged_file, merge_calls >>
  /\ UNCHANGED << rvars, dvars >>

\* lines 46-49: the first file is loaded, its attributes seed a new merged
\* root, and it is processed
MergeFirstFile ==
  /\ mpc = "merge"
  /\ next_file = 1
  /\ file_paths # <<>>
  /\ file_paths[1].parses
  /\ LET fresh == [MergerState EXCEPT !.children = <<>>]
         m == ProcessSchema(fresh, file_paths[1])
     IN  /\ merged_types' = m.merged_types
         /\ merged_elements' = m.merged_elements
         /\ merged_root' = << [attrib |-> file_paths[1].attrib, children |-> m.children] >>
  /\ next_file' = 2
  /\ UNCHANGED << input_dir_exists, xsd_files, file_paths, merged_file, exit_status,
                  merge_calls, mpc >>
  /\ UNCHANGED << rvars, dvars >>

\* lines 51-53: a later file is loaded and processed
MergeNextFile ==
  /\ mpc = "merge"
  /\ next_file > 1
  /\ next_file <= Len(file_paths)
  /\ file_paths[next_file].parses
  /\ LET m == ProcessSchema(MergerState, file_paths[next_file])
     IN  /\ merged_types' = m.merged_types
         /\ merged_elements' = m.merged_elements
         /\ merged_root' = << [merged_root[1] EXCEPT !.children = m.children] >>
  /\ next_file' = next_file + 1
  /\ UNCHANGED << input_dir_exists, xsd_files, file_paths, merged_file, exit_status,
                  merge_calls, mpc >>
  /\ UNCHANGED << rvars, dvars >>

\* line 55: merge_schemas returns
MergeReturn ==
  /\ mpc = "merge"
  /\ next_file > 1
  /\ next_file > Len(file_paths)
  /\ mpc' = "merged"
  /\ UNCHANGED << input_dir_exists, xsd_files, file_paths, next_file, merged_types,
                  merged_elements, merged_root, merged_file, exit_status, merge_calls >>
  /\ UNCHANGED << rvars, dvars >>

\* lines 114-115 and 74-89: main saves the merged schema
SaveMergedSchema ==
  /\ mpc = "merged"
  /\ IF merged_root = <<>>
       THEN merged_file' = merged_file
       ELSE merged_file' = merged_root
  /\ mpc' = "saved"
  /\ UNCHANGED << input_dir_exists, xsd_files, file_paths, next_file, merged_types,
                  merged_elements, merged_root, exit_status, merge_calls >>
  /\ UNCHANGED << rvars, dvars >>

\* a caller that holds the merger calls merge_schemas on it again, with any
\* contiguous part of the file list (line 41)
SubLists(files) ==
  { SubSeq(files, i, j) : i \in 1..Len(files) + 1, j \in 0..Len(files) }

CallMergeSchemasAgain ==
  /\ mpc = "merged"
  /\ merge_calls < MaxMerges
  /\ file_paths' \in SubLists(xsd_files)
  /\ next_file' = 1
  /\ merge_calls' = merge_calls + 1
  /\ mpc' = "merge"
  /\ UNCHANGED << input_dir_exists, xsd_files, merged_types, merged_elements,
                  merged_root, merged_file, exit_status >>
  /\ UNCHANGED << rvars, dvars >>

NextMerge ==
  \/ InputDirMissing
  \/ NoFilesFound
  \/ CallMergeSchemas
  \/ LoadError
  \/ MergeFirstFile
  \/ MergeNextFile
  \/ MergeReturn
  \/ SaveMergedSchema

NextReuse ==
  \/ InputDirMissing
  \/ NoFilesFound
  \/ CallMergeSchemas
  \/ EmptyFileList
  \/ LoadError
  \/ MergeFirstFile
  \/ MergeNextFile
  \/ MergeReturn
  \/ SaveMergedSchema
  \/ CallMergeSchemasAgain

\* ------------------------------------------------------------------------
\* xsd_parse.py: process_xsd_file as a function of the document, and
\* process_directory
\* ------------------------------------------------------------------------

\* lines 60-86: the loop, run to its end
RECURSIVE RunLoop(_, _, _, _)
RunLoop(doc, queue, processed, pfx) ==
  IF queue = <<>> THEN doc
  ELSE IF AlreadyProcessed(Head(queue), processed)
    THEN RunLoop(doc, Tail(queue), processed, pfx)
  ELSE LET found == FindComplexType(doc, XPathPrefix(pfx), Head(queue))
           done  == MarkProcessed(processed, Head(queue), found)
           rest  == RestOfQueue(queue, found)
       IN  IF found # <<>>
             THEN RunLoop(NarrowDecl(doc, found[1], pfx),
                          rest \o Enqueued(doc, found[1], pfx, done), done, pfx)
             ELSE RunLoop(doc, rest, done, pfx)

\* lines 7-108: what the call leaves at output_path, <<>> when it returns
\* without writing
ProcessXsdFile(doc) ==
  LET p   == FindXsPrefix(doc.ns_map)
      gcs == FindComplexType(doc, XPathPrefix(p.s), TARGET)
  IN  IF p.isNone THEN <<>>
      ELSE IF gcs = <<>> THEN << doc >>
      ELSE << FinalPass(RunLoop(doc, CHOOSE q \in Orderings(NestedTypes(doc, gcs, p.s)) : TRUE,
                                {}, p.s),
                        gcs, 1, p.s) >>

\* str.lower() on a file name
LowerToken(t) == IF t = ".XSD" THEN ".xsd" ELSE IF t = ".Xsd" THEN ".xsd" ELSE t

Lower(name) == [k \in 1..Len(name) |-> LowerToken(name[k])]

\* line 126: file.lower().endswith('.xsd')
IsXsdFile(name) == EndsWith(Lower(name), << ".xsd" >>)

\* the spec's example: the target with a date element and a reference to a
\* type that holds an integer element
ExampleDocument ==
  [ns_map |-> PrefixedNsMap, ns |-> XSD_NS, written |-> <<"xs", ":">>,
   decls |-> << [name |-> TARGET, elems |-> << <<"xs", ":", "date">>, <<"A">> >>],
                [name |-> <<"A">>, elems |-> << <<"xs", ":", "integer">> >>] >>]

\* an XML file that binds no XSD namespace
ForeignDocument ==
  [ns_map |-> ForeignNsMap, ns |-> TNS, written |-> <<"xs", ":">>, decls |-> <<>>]

\* the target with an integer element, in a schema that binds the XSD
\* namespace as its default namespace
DefaultNsDocument ==
  [ns_map |-> DefaultNsMap, ns |-> XSD_NS, written |-> <<>>,
   decls |-> << [name |-> TARGET, elems |-> << <<"integer">> >>] >>]

\* what a file of the input tree holds: a document, or text that does not parse
Contents ==
  { [wellformed |-> TRUE,  doc |-> ExampleDocument],
    [wellformed |-> TRUE,  doc |-> DefaultNsDocument],
    [wellformed |-> TRUE,  doc |-> ForeignDocument],
    [wellformed |-> FALSE, doc |-> ForeignDocument] }

\* relative paths: a directory ("" for the input directory itself) and a
\* file name
Paths ==
  { [dir |-> d, name |-> n] :
      d \in { <<>>, <<"sub">> },
      n \in { <<"a", ".xsd">>, <<"a", ".XSD">>, <<"a", ".xml">> } }

\* the walk yields files of distinct paths
IsWalk(files) ==
  \E n \in 0..MaxWalk :
    \E paths \in [1..n -> Paths] :
      /\ \A i, j \in 1..n : paths[i] = paths[j] => i = j
      /\ \E contents \in [1..n -> Contents] :
           files = [i \in 1..n |-> [path |-> paths[i], content |-> contents[i]]]

InitDirectory ==
  /\ walk_dir_exists \in BOOLEAN
  /\ IsWalk(walk)
  /\ ~walk_dir_exists => walk = <<>>
  /\ walk_pos = 1
  /\ calls = [i \in 1..Len(walk) |-> 0]
  /\ outputs = [q \in {} |-> <<>>]
  /\ errors = {}
  /\ xsd_files_found = FALSE
  /\ dpc = "start"

\* lines 118-120: the input directory does not exist
WalkDirMissing ==
  /\ dpc = "start"
  /\ ~walk_dir_exists
  /\ dpc' = "done"
  /\ UNCHANGED << walk_dir_exists, walk, walk_pos, calls, outputs, errors, xsd_files_found >>
  /\ UNCHANGED << rvars, mvars >>

\* lines 122-124: the walk starts
StartWalk ==
  /\ dpc = "start"
  /\ walk_dir_exists
  /\ dpc' = "walk"
  /\ UNCHANGED << walk_dir_exists, walk, walk_pos, calls, outputs, errors, xsd_files_found >>
  /\ UNCHANGED << rvars, mvars >>

\* lines 125-126: a file whose name does not end in .xsd
OtherFile ==
  /\ dpc = "walk"
  /\ walk_pos <= Len(walk)
  /\ ~IsXsdFile(walk[walk_pos].path.name)
  /\ walk_pos' = walk_pos + 1
  /\ UNCHANGED << walk_dir_exists, walk, calls, outputs, errors, xsd_files_found, dpc >>
  /\ UNCHANGED << rvars, mvars >>

\* lines 126-135: an .xsd file on which process_xsd_file returns
ProcessFile ==
  /\ dpc = "walk"
  /\ walk_pos <= Len(walk)
  /\ IsXsdFile(walk[walk_pos].path.name)
  /\ walk[walk_pos].content.wellformed
  /\ xsd_files_found' = TRUE
  /\ calls' = [calls EXCEPT ![walk_pos] = @ + 1]
  /\ LET written == ProcessXsdFile(walk[walk_pos].content.doc)
         rel_path == walk[walk_pos].path
     IN  outputs' =
           IF written = <<>> THEN outputs
           ELSE [q \in DOMAIN outputs \cup { rel_path } |->
                   IF q = rel_path THEN written[1] ELSE outputs[q]]
  /\ walk_pos' = walk_pos + 1
  /\ UNCHANGED << walk_dir_exists, walk, errors, dpc >>
  /\ UNCHANGED << rvars, mvars >>

\* a process_directory without the try of line 133: the exception ends the
\* run
ProcessFileError_Uncaught ==
  /\ dpc = "walk"
  /\ walk_pos <= Len(walk)
  /\ IsXsdFile(walk[walk_pos].path.name)
  /\ ~walk[walk_pos].content.wellformed
  /\ xsd_files_found' = TRUE
  /\ calls' = [calls EXCEPT ![walk_pos] = @ + 1]
  /\ dpc' = "done"
  /\ UNCHANGED << walk_dir_exists, walk, walk_pos, outputs, errors >>
  /\ UNCHANGED << rvars, mvars >>

\* lines 126-137: an .xsd file on which process_xsd_file raises (line 9, the
\* file does not parse); the exception is caught and printed
ProcessFileError ==
  /\ dpc = "walk"
  /\ walk_pos <= Len(walk)
  /\ IsXsdFile(walk[walk_pos].path.name)
  /\ ~walk[walk_pos].content.wellformed
  /\ xsd_files_found' = TRUE
  /\ calls' = [calls EXCEPT ![walk_pos] = @ + 1]
  /\ errors' = errors \cup { walk_pos }
  /\ walk_pos' = walk_pos + 1
  /\ UNCHANGED << walk_dir_exists, walk, outputs, dpc >>
  /\ UNCHANGED << rvars, mvars >>

\* lines 139-140: the walk is over
EndWalk ==
  /\ dpc = "walk"
  /\ walk_pos > Len(walk)
  /\ dpc' = "done"
  /\ UNCHANGED << walk_dir_exists, walk, walk_pos, calls, outputs, errors, xsd_files_found >>
  /\ UNCHANGED << rvars, mvars >>

NextDirectory ==
  \/ WalkDirMissing
  \/ StartWalk
  \/ OtherFile
  \/ ProcessFile
  \/ ProcessFileError
  \/ EndWalk

\* ------------------------------------------------------------------------
\* Specifications
\* ------------------------------------------------------------------------

\* the variables of a tool that is not running
IdleRewrite ==
  /\ input = [ns_map |-> <<>>, ns |-> NO_NS, written |-> <<>>, decls |-> <<>>]
  /\ root = input
  /\ xs_prefix = None
  /\ gc_elements = <<>>
  /\ complex_types_to_process = <<>>
  /\ processed_types = {}
  /\ output = <<>>
  /\ pc = "idle"
  /\ expansions = [n \in {} |-> 0]
  /\ iterations = 0

IdleMerge ==
  /\ input_dir_exists = FALSE
  /\ xsd_files = <<>>
  /\ file_paths = <<>>
  /\ next_file = 1
  /\ InitMerger
  /\ merged_file = <<>>
  /\ exit_status = 0
  /\ mpc = "idle"

IdleDirectory ==
  /\ walk_dir_exists = FALSE
  /\ walk = <<>>
  /\ walk_pos = 1
  /\ calls = <<>>
  /\ outputs = [q \in {} |-> <<>>]
  /\ errors = {}
  /\ xsd_files_found = FALSE
  /\ dpc = "idle"

\* one call of process_xsd_file on any document
InitR == InitRewrite /\ IdleMerge /\ IdleDirectory

SpecRewrite == InitR /\ [][NextRewrite]_vars

\* one run of the merger's main
InitM == InitMerge /\ IdleRewrite /\ IdleDirectory

SpecMerge == InitM /\ [][NextMerge]_vars

\* main's merge, followed by further merge_schemas calls on the same merger
SpecReuse == InitM /\ [][NextReuse]_vars

\* one run of process_directory
InitD == InitDirectory /\ IdleRewrite /\ IdleMerge

SpecDirectory == InitD /\ [][NextDirectory]_vars


\* ------------------------------------------------------------------------
\* The reference graph of a document (spec.md, section 3), defined on the
\* document alone
\* ------------------------------------------------------------------------

BuiltinLocals == NarrowLocals \cup { <<"string">> }

\* a type attribute that names a type of the document rather than a built-in
IsReference(doc, t) == Truthy(t) /\ t \notin { doc.written \o l : l \in BuiltinLocals }

Declared(doc, name) == \E d \in 1..Len(doc.decls) : doc.decls[d].name = name

DeclaresTarget(doc) == doc.ns = XSD_NS /\ Declared(doc, TARGET)

\* the names referenced by the elements of the declarations named in names
RefsOf(doc, names) ==
  UNION { { doc.decls[d].elems[e] :
              e \in { e0 \in 1..Len(doc.decls[d].elems) :
                        IsReference(doc, doc.decls[d].elems[e0]) } } :
          d \in { d0 \in 1..Len(doc.decls) : doc.decls[d0].name \in names } }

RECURSIVE Closure(_, _)
Closure(doc, R) ==
  LET R2 == R \cup RefsOf(doc, R) IN IF R2 = R THEN R ELSE Closure(doc, R2)

\* the type names reachable from the target by following references
ReachableNames(doc) == Closure(doc, RefsOf(doc, { TARGET }))

\* declaration d is the target or is reachable from it
InReach(doc, d) == doc.decls[d].name \in { TARGET } \cup ReachableNames(doc)

\* a built-in of the XSD namespace as the document writes it
XsdName(doc, local) == doc.written \o local

TotalElems(doc) == SumTo([d \in 1..Len(doc.decls) |-> Len(doc.decls[d].elems)], Len(doc.decls))

\* the document with every element of the target and of the reachable
\* declarations narrowed
NarrowedDocument(doc) ==
  [doc EXCEPT !.decls =
     [d \in 1..Len(@) |->
        IF InReach(doc, d)
          THEN [@[d] EXCEPT !.elems =
                  [e \in 1..Len(@) |->
                     IF @[e] \in { XsdName(doc, l) : l \in NarrowLocals }
                       THEN XsdName(doc, <<"string">>) ELSE @[e]]]
          ELSE @[d]]]

\* ------------------------------------------------------------------------
\* Claims about process_xsd_file (SpecRewrite)
\* ------------------------------------------------------------------------

NarrowNames(doc) == { XsdName(doc, l) : l \in NarrowLocals }

\* C1: in a document that declares the target type, after the rewrite an
\* element's type is the XSD string type if and only if it was that already
\* or the element is nested in the target or in a type reachable from it and
\* its type was the XSD integer, boolean, date or dateTime; every other type
\* attribute is unchanged.
C1_NarrowingCorrectness ==
  (pc = "done" /\ DeclaresTarget(input)) =>
    \A d \in 1..Len(input.decls) : \A e \in 1..Len(input.decls[d].elems) :
      LET before == input.decls[d].elems[e]
          after  == root.decls[d].elems[e]
          str    == XsdName(input, <<"string">>)
      IN  /\ (after = str) <=>
               (before = str \/ (InReach(input, d) /\ before \in NarrowNames(input)))
          /\ after # str => after = before

OnCycle(doc, n) == n \in Closure(doc, RefsOf(doc, { n }))

C6_DanglingTolerance ==
  [][ /\ ( /\ pc = "loop"
           /\ complex_types_to_process # <<>>
           /\ ~Declared(input, Head(complex_types_to_process)) )
        => /\ pc' = "loop"
           /\ processed_types' = processed_types \cup { Head(complex_types_to_process) }
           /\ complex_types_to_process' = Tail(complex_types_to_process)
           /\ root' = root
      /\ ( /\ pc' = "done"
           /\ \E n \in processed_types' : ~Declared(input, n) )
        => /\ processed_types' = ReachableNames(input)
           /\ root' = NarrowedDocument(input)
    ]_vars

C6_Witness ==
  /\ pc = "done"
  /\ \E n \in processed_types : ~Declared(input, n)
  /\ \E m \in processed_types : Declared(input, m) /\ m # TARGET
  /\ root # input

\* C8: in a document that binds the XSD namespace as its default namespace
\* the target is located and every element of the target or of a reachable
\* type whose type is integer, boolean, date or dateTime (written without a
\* prefix) is rewritten to string, the references being told from the
\* built-ins as in a prefixed document.
C8_EmptyPrefixRewrite ==
  (pc = "done" /\ xs_prefix = Some(<<>>) /\ DeclaresTarget(input)) =>
    /\ gc_elements # <<>>
    /\ processed_types = ReachableNames(input)
    /\ \A d \in 1..Len(input.decls) : \A e \in 1..Len(input.decls[d].elems) :
         (InReach(input, d) /\ input.decls[d].elems[e] \in NarrowLocals)
           => root.decls[d].elems[e] = <<"string">>

\* a reference written with a prefix, and the name it refers to
IsPrefixedReference(doc, t) == IsReference(doc, t) /\ Len(t) = 3 /\ t[2] = ":"

LocalName(t) == << t[Len(t)] >>

\* C9: a reference p:Name from the target or from an expanded type to a
\* type declared with name Name is followed: Name is expanded and none of
\* its elements keeps an integer, boolean, date or dateTime type.
C9_PrefixedReferenceFollowed ==
  (pc = "done" /\ gc_elements # <<>>) =>
    \A d \in 1..Len(input.decls) : \A e \in 1..Len(input.decls[d].elems) :
      LET t == input.decls[d].elems[e]
      IN  ( /\ input.decls[d].name \in { TARGET } \cup processed_types
            /\ IsPrefixedReference(input, t)
            /\ Declared(input, LocalName(t)) )
          => \A d2 \in 1..Len(root.decls) :
               root.decls[d2].name = LocalName(t)
                 => \A e2 \in 1..Len(root.decls[d2].elems) :
                      root.decls[d2].elems[e2] \notin NarrowNames(input)

\* C10: whatever the order of the initial work queue, the run ends with the
\* same visited set and the same document: the names reachable from the
\* target, and the document with the target's and the reachable
\* declarations' elements narrowed.
C10_OrderIndependent ==
  (pc = "done" /\ gc_elements # <<>>) =>
    /\ processed_types = ReachableNames(input)
    /\ root = NarrowedDocument(input)
    /\ output = << root >>

C10_Witness ==
  /\ pc = "done"
  /\ gc_elements # <<>>
  /\ Cardinality(RefsOf(input, { TARGET })) >= 2
  /\ \E n \in RefsOf(input, { TARGET }) : Declared(input, n) /\ n # TARGET
  /\ root # input

\* ------------------------------------------------------------------------
\* Claims about the merger (SpecMerge, SpecReuse)
\* ------------------------------------------------------------------------

\* the kind of a top-level declaration, by the local name of its tag
Kind(child) ==
  LET local == child.tag[Len(child.tag)]
  IN  IF local = "element" THEN "element"
      ELSE IF local \in { "complexType", "simpleType" } THEN "type"
      ELSE "other"

IsDeclaration(child) == Kind(child) \in { "element", "type" }

\* the children of the first k files of the list, in file order then
\* document order
RECURSIVE Flat(_, _)
Flat(files, k) == IF k = 0 THEN <<>> ELSE Flat(files, k - 1) \o files[k].children

\* the position in seq of the first declaration of that kind and name
FirstOccurrence(seq, kind, name) ==
  CHOOSE k \in 1..Len(seq) :
    /\ Kind(seq[k]) = kind /\ seq[k].name = name
    /\ \A j \in 1..(k - 1) : ~(Kind(seq[j]) = kind /\ seq[j].name = name)

MergedChildren == IF merged_root = <<>> THEN <<>> ELSE merged_root[1].children

\* C2: after any number of the listed files have been processed, the merged
\* root holds no two elements of one name and no two types of one name; each
\* declaration it holds is the first of its kind and name in file order then
\* document order; and every named declaration met so far is represented.
C2_FirstOccurrenceWins ==
  LET seen == Flat(file_paths, next_file - 1)
      kids == MergedChildren
  IN  /\ \A i, j \in 1..Len(kids) :
           ( /\ IsDeclaration(kids[i])
             /\ Kind(kids[i]) = Kind(kids[j])
             /\ kids[i].name = kids[j].name ) => i = j
      /\ \A i \in 1..Len(kids) :
           IsDeclaration(kids[i]) =>
             /\ \E k \in 1..Len(seen) : seen[k] = kids[i]
             /\ kids[i] = seen[FirstOccurrence(seen, Kind(kids[i]), kids[i].name)]
      /\ \A k \in 1..Len(seen) :
           (IsDeclaration(seen[k]) /\ seen[k].name # <<>>) =>
             \E i \in 1..Len(kids) :
               Kind(kids[i]) = Kind(seen[k]) /\ kids[i].name = seen[k].name

\* two files declare the same kind and name with different content, and the
\* merged root holds the first file's declaration only
C2_Witness ==
  /\ mpc = "merged"
  /\ Len(file_paths) >= 2
  /\ \E c1 \in 1..Len(file_paths[1].children), c2 \in 1..Len(file_paths[2].children) :
       LET a == file_paths[1].children[c1]
           b == file_paths[2].children[c2]
       IN  /\ Kind(a) = "type" /\ Kind(b) = "type"
           /\ a.name = b.name /\ a # b
           /\ \E i \in 1..Len(MergedChildren) : MergedChildren[i] = a
           /\ \A i \in 1..Len(MergedChildren) : MergedChildren[i] # b

BadInput ==
  \/ ~input_dir_exists
  \/ xsd_files = <<>>
  \/ \E i \in 1..Len(xsd_files) : ~xsd_files[i].parses

\* the position of the first file that does not parse
FirstBad ==
  CHOOSE i \in 1..Len(xsd_files) :
    ~xsd_files[i].parses /\ \A j \in 1..(i - 1) : xsd_files[j].parses

\* C4: when the input directory is missing, the file list is empty or a
\* file fails to parse, the run never reaches the save, it cannot stop
\* anywhere but in the exit with status 1, that exit is taken at the first
\* file that fails, and merged_schema.xsd is not written; the file is
\* written only once every input file has been loaded and processed.
C4_FailFast ==
  /\ (mpc = "exit") <=> (exit_status # 0)
  /\ exit_status # 0 => merged_file = <<>>
  /\ merged_file # <<>> =>
       /\ ~BadInput
       /\ mpc = "saved"
       /\ next_file = Len(xsd_files) + 1
  /\ BadInput =>
       /\ mpc \notin { "merged", "saved" }
       /\ merged_file = <<>>
       /\ mpc # "exit" => ENABLED NextMerge
       /\ (input_dir_exists /\ xsd_files # <<>>) =>
            /\ next_file <= FirstBad
            /\ mpc = "exit" => next_file = FirstBad

\* a file after the first fails to parse: declarations were merged already,
\* the process has exited and nothing is written
C4_Witness ==
  /\ mpc = "exit"
  /\ next_file >= 2
  /\ MergedChildren # <<>>
  /\ exit_status = 1
  /\ merged_file = <<>>

RECURSIVE ProcessFiles(_, _, _)
ProcessFiles(m, files, i) ==
  IF i > Len(files) THEN m ELSE ProcessFiles(ProcessSchema(m, files[i]), files, i + 1)

\* what merge_schemas(files) returns on a merger that has merged nothing yet
FreshMerge(files) ==
  << [attrib   |-> files[1].attrib,
      children |-> ProcessFiles([merged_types |-> {}, merged_elements |-> {},
                                 children |-> <<>>], files, 1).children] >>

\* C7: whenever merge_schemas returns, on a new merger or on one that has
\* merged before, the merged root is the one a new merger returns for the
\* same file list.
C7_MergesIndependent ==
  mpc = "merged" => merged_root = FreshMerge(file_paths)

\* ------------------------------------------------------------------------
\* Claims about process_directory (SpecDirectory)
\* ------------------------------------------------------------------------

\* a file name with the extension .xsd in any letter case
HasXsdExtension(name) == name[Len(name)] \in { ".xsd", ".XSD", ".Xsd" }

\* C5: no file is handed to process_xsd_file twice, and when the run over an
\* existing input tree ends, every .xsd file (in any letter case) has been
\* handed to it exactly once and no other file has; a file that does not
\* parse has its error printed and leaves no output, and every other .xsd
\* file has at its relative path exactly what process_xsd_file writes for
\* it, whatever happened to the files around it.
C5_BestEffortPerFile ==
  /\ \A i \in 1..Len(walk) : calls[i] <= 1
  /\ (dpc = "done" /\ walk_dir_exists) =>
       \A i \in 1..Len(walk) :
         LET f == walk[i]
         IN  /\ calls[i] = IF HasXsdExtension(f.path.name) THEN 1 ELSE 0
             /\ (HasXsdExtension(f.path.name) /\ ~f.content.wellformed) =>
                  i \in errors /\ f.path \notin DOMAIN outputs
             /\ (HasXsdExtension(f.path.name) /\ f.content.wellformed) =>
                  /\ i \notin errors
                  /\ IF ProcessXsdFile(f.content.doc) = <<>>
                       THEN f.path \notin DOMAIN outputs
                       ELSE /\ f.path \in DOMAIN outputs
                            /\ outputs[f.path] = ProcessXsdFile(f.content.doc)[1]
             /\ ~HasXsdExtension(f.path.name) => f.path \notin DOMAIN outputs

\* a file that does not parse is followed by an upper-case .XSD file in a
\* subdirectory, which is rewritten and written
C5_Witness ==
  /\ dpc = "done"
  /\ Len(walk) >= 2
  /\ 1 \in errors
  /\ walk[2].path = [dir |-> <<"sub">>, name |-> <<"a", ".XSD">>]
  /\ walk[2].path \in DOMAIN outputs
  /\ outputs[walk[2].path] = NarrowedDocument(ExampleDocument)
  /\ outputs[walk[2].path] # ExampleDocument

====
